---- MODULE Spec2Model ----
(***************************************************************************)
(* Dataset discovery and selection in run.py (main): enumeration of the   *)
(* data directory, per-file sampling (infer_file), heuristic scoring,     *)
(* primary-file selection, catalog persistence, the catalog-only exit and *)
(* the hand-over to the analysis agent.                                   *)
(*                                                                         *)
(* Python strings that the program inspects (paths, patterns, column      *)
(* names) are sequences of one-character strings, so that lower(),        *)
(* strip(), split(","), basename, splitext and the code-point ordering    *)
(* used by sorted() are computed, not assumed.  Error messages are only   *)
(* ever tested for emptiness and are kept as plain strings.               *)
(* Scores are kept exactly, in units of 1/ScoreUnit.                      *)
(***************************************************************************)
EXTENDS Integers, Sequences, FiniteSets, TLC

(* ------------------------------------------------------------------ *)
(* Bounds                                                              *)
(* ------------------------------------------------------------------ *)

\* largest number of entries the data directory holds
MaxFiles == 3

(* ------------------------------------------------------------------ *)
(* Python string primitives                                            *)
(* ------------------------------------------------------------------ *)

\* Python's None, distinct from every string of characters
None == <<"None">>

UpperChars == <<"A","B","C","D","E","F","G","H","I","J","K","L","M",
                "N","O","P","Q","R","S","T","U","V","W","X","Y","Z">>

LowerChars == <<"a","b","c","d","e","f","g","h","i","j","k","l","m",
                "n","o","p","q","r","s","t","u","v","w","x","y","z">>

\* the characters the model uses, in code-point order
CodePoints == <<" ", "*", ",", ".", "/">> \o UpperChars \o <<"_">> \o LowerChars

Ord(c) == CHOOSE i \in 1..Len(CodePoints) : CodePoints[i] = c

Min(a, b) == IF a <= b THEN a ELSE b

\* str.__lt__: comparison by code point, a proper prefix is smaller
StrLess(s, t) ==
    \E k \in 1..(Min(Len(s), Len(t)) + 1) :
        /\ \A i \in 1..(k - 1) : s[i] = t[i]
        /\ \/ k > Len(s) /\ k <= Len(t)
           \/ k <= Len(s) /\ k <= Len(t) /\ Ord(s[k]) < Ord(t[k])

LowerChar(c) ==
    IF \E i \in 1..26 : UpperChars[i] = c
    THEN LowerChars[CHOOSE i \in 1..26 : UpperChars[i] = c]
    ELSE c

\* str.lower()
Lower(s) == IF s = <<>> THEN <<>> ELSE [i \in 1..Len(s) |-> LowerChar(s[i])]

\* str.strip()
Strip(s) ==
    LET keep == {i \in 1..Len(s) : s[i] # " "}
    IN  IF keep = {} THEN <<>>
        ELSE SubSeq(s, CHOOSE i \in keep : \A j \in keep : i <= j,
                       CHOOSE i \in keep : \A j \in keep : j <= i)

\* str.split(",")
RECURSIVE SplitComma(_)
SplitComma(s) ==
    LET cs == {i \in 1..Len(s) : s[i] = ","}
    IN  IF cs = {} THEN <<s>>
        ELSE LET i == CHOOSE i \in cs : \A j \in cs : i <= j
             IN  <<SubSeq(s, 1, i - 1)>> \o SplitComma(SubSeq(s, i + 1, Len(s)))

\* index of the last occurrence of c in s, 0 when there is none
LastIndex(s, c) ==
    LET cs == {i \in 1..Len(s) : s[i] = c}
    IN  IF cs = {} THEN 0 ELSE CHOOSE i \in cs : \A j \in cs : j <= i

\* os.path.basename
Basename(p) == SubSeq(p, LastIndex(p, "/") + 1, Len(p))

\* os.path.splitext(p)[1]: from the last dot of the basename, leading dots
\* of the basename not counting
SplitExt(p) ==
    LET b == Basename(p)
        d == LastIndex(b, ".")
    IN  IF d > 0 /\ \E i \in 1..(d - 1) : b[i] # "."
        THEN SubSeq(b, d, Len(b)) ELSE <<>>

\* if x: for a value that is None or a string
Truthy(x) == x # None /\ x # <<>>

RECURSIVE SeqOfSet(_)
SeqOfSet(S) ==
    IF S = {} THEN <<>>
    ELSE LET x == CHOOSE x \in S : TRUE IN <<x>> \o SeqOfSet(S \ {x})

Range(s) == {s[i] : i \in 1..Len(s)}

(* ------------------------------------------------------------------ *)
(* Program constants                                                   *)
(* ------------------------------------------------------------------ *)

\* scores are held in units of 1/ScoreUnit: 0.5 * nrows / 1_000_000 is
\* nrows units and 0.1 * ncols is (ScoreUnit \div 10) * ncols units
ScoreUnit == 2000000

\* rows read from a csv file, and the chunk size of a Stata file
SampleRows == 200

\* column names kept in a record (cols[:20])
SampleCols == 20

TimeKeys ==
    {<<"t","i","m","e">>, <<"y","e","a","r">>, <<"d","a","t","e">>, <<"t">>}

UnitKeys ==
    {<<"u","n","i","t">>, <<"i","d">>, <<"p","a","n","e","l","i","d">>,
     <<"c","o","u","n","t","y">>, <<"s","t","a","t","e">>,
     <<"r","e","g","i","o","n">>, <<"f","i","r","m">>}

TreatKeys ==
    {<<"t","r","e","a","t">>, <<"t","r","e","a","t","e","d">>,
     <<"p","o","l","i","c","y">>, <<"p","o","s","t">>, <<"d">>}

OutcomeKeys ==
    {<<"y">>, <<"o","u","t","c","o","m","e">>, <<"d","e","p">>,
     <<"d","e","p","e","n","d","e","n","t">>, <<"l","h","s">>}

ExtCsv == <<".","c","s","v">>

ExtParquet == <<".","p","a","r","q","u","e","t">>

ExtFeather == <<".","f","e","a","t","h","e","r">>

ExtDta == <<".","d","t","a">>

\* --data-glob default
GlobDefault ==
    <<"*",".","c","s","v",",","*",".","p","a","r","q","u","e","t",",",
      "*",".","f","e","a","t","h","e","r",",","*",".","d","t","a">>

(* ------------------------------------------------------------------ *)
(* Inputs: command lines and directory contents                        *)
(* ------------------------------------------------------------------ *)

\* " *.csv ,*v,, *.xlsx,*.CSV": overlapping patterns, padding, a blank
\* entry, an extension no reader takes and an upper-case extension
GlobMessy ==
    <<" ","*",".","c","s","v"," ",",","*","v",",",",",
      " ","*",".","x","l","s","x",",","*",".","C","S","V">>

\* " ,": only blank entries
GlobBlank == <<" ",",">>

DirD == <<"d">>

DirMissing == <<"n","o","d","i","r">>

PathA == <<"d","/","a",".","c","s","v">>

PathB == <<"d","/","b",".","c","s","v">>

PathSubA == <<"d","/","s","u","b","/","a",".","c","s","v">>

PathXlsx == <<"d","/","c",".","x","l","s","x">>

PathDta == <<"d","/","e",".","d","t","a">>

PathParquet == <<"d","/","w",".","p","a","r","q","u","e","t">>

PathLink == <<"d","/","l",".","c","s","v">>

PathUpper == <<"d","/","B",".","C","S","V">>

PathFeather == <<"d","/","f",".","f","e","a","t","h","e","r">>

PathGone == <<"g","o","n","e",".","c","s","v">>

\* --primary-file values: a basename, a path in another directory with a
\* basename of the catalog, and a name no file has
PrimaryBase == <<"a",".","c","s","v">>

PrimaryOther == <<"x","/","b",".","c","s","v">>

PrimaryNone == <<"z","z",".","c","s","v">>

ColsPanel ==
    <<<<"U","n","i","t">>, <<"T","I","M","E">>, <<"t","r","e","a","t">>, <<"Y">>>>

ColsPanel2 ==
    <<<<"i","d">>, <<"Y","e","a","r">>, <<"T","r","e","a","t">>, <<"y">>>>

ColsNotes ==
    <<<<"i","d">>, <<"n","o","t","e","s">>>>

ColsOutcome ==
    <<<<"y">>>>

ColsShort ==
    <<<<"T">>, <<"D">>>>

\* twelve columns, none a keyword
ColsWide ==
    <<<<"x","a">>, <<"x","b">>, <<"x","c">>, <<"x","d">>, <<"x","e">>,
      <<"x","f">>, <<"x","g">>, <<"x","h">>, <<"x","i">>, <<"x","j">>,
      <<"x","k">>, <<"x","l">>>>

\* twenty-one columns, the only keyword the last one
ColsLate ==
    <<<<"c","a">>, <<"c","b">>, <<"c","c">>, <<"c","d">>, <<"c","e">>,
      <<"c","f">>, <<"c","g">>, <<"c","h">>, <<"c","i">>, <<"c","j">>,
      <<"c","k">>, <<"c","l">>, <<"c","m">>, <<"c","n">>, <<"c","o">>,
      <<"c","p">>, <<"c","q">>, <<"c","r">>, <<"c","s">>, <<"c","t">>,
      <<"y">>>>

\* a directory entry: stat "dangling" is a symbolic link whose target is
\* gone (listed by glob, os.path.getsize raises); readable FALSE is a file
\* whose reader raises an exception e with str(e) = msg
Table(path, size, columns, rows) ==
    [path |-> path, stat |-> "file", size |-> size, readable |-> TRUE,
     msg |-> "", columns |-> columns, rows |-> rows]

Broken(path, size, msg) ==
    [path |-> path, stat |-> "file", size |-> size, readable |-> FALSE,
     msg |-> msg, columns |-> <<>>, rows |-> 0]

Dangling(path) ==
    [path |-> path, stat |-> "dangling", size |-> 0, readable |-> FALSE,
     msg |-> "", columns |-> <<>>, rows |-> 0]

\* the entries the directory d may hold.  The empty-message entry is a
\* Stata file of zero observations: the chunked reader's first next()
\* raises StopIteration, whose str() is "".  The subdirectory d/sub is
\* itself an entry, but no pattern of the command lines below matches the
\* name "sub", so glob never returns it.
FileUniverse ==
    { Table(PathA, 10, ColsPanel, 1000),
      Table(PathB, 10, ColsNotes, 50),
      Broken(PathB, 10, "ParserError: Error tokenizing data"),
      Table(PathSubA, 10, ColsPanel2, 1000),
      Table(PathSubA, 20, ColsPanel2, 1000),
      Table(PathXlsx, 10, ColsPanel, 1000),
      Broken(PathDta, 10, ""),
      Table(PathDta, 10, ColsOutcome, 50),
      Table(PathParquet, 30, ColsWide, 300),
      Dangling(PathLink),
      Table(PathUpper, 10, ColsShort, 5),
      Table(PathFeather, 40, ColsLate, 250) }

Directories ==
    {d \in SUBSET FileUniverse :
        /\ Cardinality(d) <= MaxFiles
        /\ \A f, g \in d : f.path = g.path => f = g}

Args(data_dir, data_path, data_glob, primary_file, catalog_only) ==
    [data_dir |-> data_dir, data_path |-> data_path, data_glob |-> data_glob,
     primary_file |-> primary_file, catalog_only |-> catalog_only]

\* command lines of replication-directory mode
DirArgs ==
    {Args(DirD, None, g, p, c) :
        g \in {GlobDefault, GlobMessy, GlobBlank},
        p \in {None, PrimaryBase, PrimaryOther, PrimaryNone},
        c \in BOOLEAN}

\* command lines that never list the directory: a missing --data-dir, and
\* single-file mode (--data-dir absent or empty)
OtherArgs ==
    {Args(DirMissing, None, GlobDefault, None, c) : c \in BOOLEAN}
    \cup {Args(dd, dp, GlobDefault, None, c) :
            dd \in {None, <<>>}, dp \in {None, PathA, PathGone}, c \in BOOLEAN}

(* ------------------------------------------------------------------ *)
(* File enumeration (main, "Discover files by patterns")               *)
(* ------------------------------------------------------------------ *)

\* os.path.isdir(args.data_dir)
IsDir(d) == d = DirD

\* os.path.exists: FALSE for a link whose target is gone
Exists(fs, p) == \E f \in fs : f.path = p /\ f.stat = "file"

\* [p.strip() for p in (args.data_glob or "").split(",") if p.strip()]
Patterns(data_glob) ==
    LET raw == SplitComma(IF Truthy(data_glob) THEN data_glob ELSE <<>>)
    IN  SelectSeq([i \in 1..Len(raw) |-> Strip(raw[i])], LAMBDA q : q # <<>>)

\* fnmatch (POSIX: case matters) of an entry's name against the last
\* component of the pattern, for patterns that are a literal or "*"
\* followed by a literal; a leading "*" does not match a name that begins
\* with a dot
FnMatch(name, pat) ==
    IF pat # <<>> /\ pat[1] = "*"
    THEN LET suffix == Tail(pat)
         IN  /\ Len(name) >= Len(suffix)
             /\ SubSeq(name, Len(name) - Len(suffix) + 1, Len(name)) = suffix
             /\ name # <<>>
             /\ name[1] # "."
    ELSE name = pat

\* glob.glob(os.path.join(data_dir, "**", pat), recursive=True): the entries
\* at any depth under the directory whose name matches, in listing order
Glob(fs, pat) == SeqOfSet({f.path : f \in {g \in fs : FnMatch(Basename(g.path), pat)}})

\* files = []; for pat in patterns: files.extend(glob.glob(...))
RECURSIVE ExtendAll(_, _)
ExtendAll(fs, pats) ==
    IF pats = <<>> THEN <<>>
    ELSE Glob(fs, Head(pats)) \o ExtendAll(fs, Tail(pats))

\* sorted() of a set of strings, largest first
RECURSIVE SortedDescending(_)
SortedDescending(S) ==
    IF S = {} THEN <<>>
    ELSE LET m == CHOOSE x \in S : \A y \in S \ {x} : StrLess(y, x)
         IN  <<m>> \o SortedDescending(S \ {m})

\* sorted(set(files))
RECURSIVE PySorted(_)
PySorted(S) ==
    IF S = {} THEN <<>>
    ELSE LET m == CHOOSE x \in S : \A y \in S \ {x} : StrLess(x, y)
         IN  <<m>> \o PySorted(S \ {m})

Enumerate(fs, pats) == PySorted(Range(ExtendAll(fs, pats)))

(* ------------------------------------------------------------------ *)
(* infer_file                                                          *)
(* ------------------------------------------------------------------ *)

SupportedExts == {ExtCsv, ExtParquet, ExtFeather, ExtDta}

\* the shape of the frame the reader returns: csv is read with nrows=200
\* and Stata by its first chunk of 200; parquet and feather are read whole
RowsRead(ext, f) ==
    IF ext \in {ExtCsv, ExtDta} THEN Min(f.rows, SampleRows) ELSE f.rows

\* colset = {c.lower(): c for c in cols}, kept as a dict whose keys are
\* the column names as they stand
ColsetAsIs(cols) ==
    [k \in Range(cols) |-> k]

\* colset = {c.lower(): c for c in cols}: the last column of a name wins
Colset(cols) ==
    [k \in {Lower(cols[i]) : i \in 1..Len(cols)} |->
        cols[CHOOSE i \in 1..Len(cols) :
                /\ Lower(cols[i]) = k
                /\ \A j \in 1..Len(cols) : Lower(cols[j]) = k => j <= i]]

\* any(k in colset for k in keys)
AnyIn(keys, colset) == \E k \in keys : k \in DOMAIN colset

Signals(cols) ==
    LET colset == Colset(cols)
    IN  [has_unit    |-> AnyIn(UnitKeys, colset),
         has_time    |-> AnyIn(TimeKeys, colset),
         has_treat   |-> AnyIn(TreatKeys, colset),
         has_outcome |-> AnyIn(OutcomeKeys, colset)]

\* score, in units of 1/ScoreUnit
Score(sig, nrows, ncols) ==
    (IF sig.has_unit /\ sig.has_time THEN 3 * ScoreUnit ELSE 0)
    + (IF sig.has_treat THEN 2 * ScoreUnit ELSE 0)
    + (IF sig.has_outcome THEN 1 * ScoreUnit ELSE 0)
    + nrows + (ScoreUnit \div 10) * ncols

\* cols[:20]
SampleOf(cols) == SubSeq(cols, 1, Min(Len(cols), SampleCols))

\* os.path.getsize(fp) is called before the try block: its OSError leaves
\* infer_file
InferFileRaises(f) == f.stat # "file"

\* the record infer_file returns when it returns
InferFile(f) ==
    LET ext == Lower(SplitExt(f.path))
    IN  IF ext \notin SupportedExts
        THEN [path |-> f.path, ext |-> ext, size |-> f.size,
              error |-> "unsupported_ext"]
        ELSE IF ~f.readable
        THEN [path |-> f.path, ext |-> ext, size |-> f.size, error |-> f.msg]
        ELSE LET nrows == RowsRead(ext, f)
                 ncols == Len(f.columns)
                 sig   == Signals(f.columns)
             IN  [path |-> f.path, ext |-> ext, size |-> f.size,
                  nrows |-> nrows, ncols |-> ncols,
                  columns |-> SampleOf(f.columns),
                  score |-> Score(sig, nrows, ncols),
                  signals |-> sig]

(* ------------------------------------------------------------------ *)
(* Primary selection                                                   *)
(* ------------------------------------------------------------------ *)

\* c.get(k) or 0, and c.get(k, 0), for an integer field
GetOr0(c, k) == IF k \in DOMAIN c THEN c[k] ELSE 0

\* c.get("error") is truthy
HasError(c) == "error" \in DOMAIN c /\ c.error # ""

\* matching by path equality only
MatchedByPath(cat, candidate) ==
    SelectSeq(cat, LAMBDA c : c.path = candidate)

\* [c for c in catalog if c["path"] == candidate or
\*    os.path.basename(c["path"]) == os.path.basename(candidate)]
Matched(cat, candidate) ==
    SelectSeq(cat, LAMBDA c : \/ c.path = candidate
                              \/ Basename(c.path) = Basename(candidate))

\* [c for c in catalog if not c.get("error")]
ValidOf(cat) == SelectSeq(cat, LAMBDA c : ~HasError(c))

\* key=lambda c: (c.get("score", 0), c.get("nrows") or 0, c.get("size") or 0)
SortKey(c) == <<GetOr0(c, "score"), GetOr0(c, "nrows"), GetOr0(c, "size")>>

\* tuple comparison
KeyLess(a, b) ==
    \/ a[1] < b[1]
    \/ a[1] = b[1] /\ a[2] < b[2]
    \/ a[1] = b[1] /\ a[2] = b[2] /\ a[3] < b[3]

\* a descending sort that puts an element before its equals
RECURSIVE SortLastFirst(_)
SortLastFirst(s) ==
    IF s = <<>> THEN <<>>
    ELSE LET rest == SortLastFirst(SubSeq(s, 1, Len(s) - 1))
             x    == s[Len(s)]
             n    == Cardinality({i \in 1..Len(rest) :
                                    KeyLess(SortKey(x), SortKey(rest[i]))})
         IN  SubSeq(rest, 1, n) \o <<x>> \o SubSeq(rest, n + 1, Len(rest))

\* list.sort(key=..., reverse=True): descending and stable, elements of
\* equal key keep their order
RECURSIVE SortDesc(_)
SortDesc(s) ==
    IF s = <<>> THEN <<>>
    ELSE LET rest == SortDesc(SubSeq(s, 1, Len(s) - 1))
             x    == s[Len(s)]
             n    == Cardinality({i \in 1..Len(rest) :
                                    ~KeyLess(SortKey(rest[i]), SortKey(x))})
         IN  SubSeq(rest, 1, n) \o <<x>> \o SubSeq(rest, n + 1, Len(rest))

(* ------------------------------------------------------------------ *)
(* Agent hand-over                                                     *)
(* ------------------------------------------------------------------ *)

\* how agent.run() can end: it returns, raises an Exception, is
\* interrupted (KeyboardInterrupt), or raises another BaseException
RunOutcomes == {"ok", "exception", "interrupt", "base_exception"}

\* what main returns after run(); NotReturned when the exception is caught
\* by neither except clause and leaves main
NotReturned == -1

RunReturn(outcome) ==
    CASE outcome = "ok" -> 0
      [] outcome = "exception" -> 1
      [] outcome = "interrupt" -> 1
      [] OTHER -> NotReturned

\* cleanup called from the body of the try block, after run() returns
CleanupAfterSuccess(ag, outcome) == ag.has_cleanup /\ outcome = "ok"

\* finally: if hasattr(agent, 'cleanup'): agent.cleanup()
CleanupDue(ag, outcome) == ag.has_cleanup

NoAgent == [constructed |-> FALSE, data_path |-> None, has_cleanup |-> FALSE]

(* ------------------------------------------------------------------ *)
(* State                                                               *)
(* ------------------------------------------------------------------ *)

VARIABLES
    args,         \* the parsed command line
    fsFiles,      \* the entries under the data directory
    pc,           \* where main is
    assigned,     \* which of patterns, files, catalog, valid hold a list
    patterns,     \* patterns
    files,        \* files
    acc,          \* the records of catalog = [infer_file(fp) for fp in files] so far
    catalog,      \* catalog (None until the list is built: "catalog" \notin assigned)
    valid,        \* valid, sorted
    selected,     \* selected_data_path
    ret,          \* main's return value, NotReturned while there is none
    raised,       \* the call whose exception left main, "" when none did
    message,      \* the error main printed before return 1, "" when none
    persist,      \* how the catalog save went, "" before it
    written,      \* the catalog files written under logs/
    agent,        \* the AnalysisAgent, constructed FALSE before there is one
    runOutcome,   \* how agent.run() ended, "" before it
    runCalls,     \* calls of agent.run()
    cleanupCalls  \* calls of agent.cleanup()

vars == <<args, fsFiles, pc, assigned, patterns, files, acc, catalog, valid, selected,
          ret, raised, message, persist, written, agent, runOutcome,
          runCalls, cleanupCalls>>

Init ==
    /\ \/ args \in DirArgs /\ fsFiles \in Directories
       \/ args \in OtherArgs /\ fsFiles \in {d \in Directories : Cardinality(d) <= 1}
    /\ pc = "start"
    /\ assigned = {}
    /\ patterns = <<>>
    /\ files = <<>>
    /\ acc = <<>>
    /\ catalog = <<>>
    /\ valid = <<>>
    /\ selected = None
    /\ ret = NotReturned
    /\ raised = ""
    /\ message = ""
    /\ persist = ""
    /\ written = <<>>
    /\ agent = NoAgent
    /\ runOutcome = ""
    /\ runCalls = 0
    /\ cleanupCalls = 0

\* return 1 after printing an error
Fail(msg) ==
    /\ ret' = 1
    /\ message' = msg
    /\ pc' = "done"

\* an exception leaves main
Raise(where) ==
    /\ raised' = where
    /\ pc' = "done"

(* ------------------------------------------------------------------ *)
(* Steps of main                                                       *)
(* ------------------------------------------------------------------ *)

\* the API key check and the paper summary: the key is missing, the PDF is
\* missing or unreadable, or the summary cannot be made
PrologueFails ==
    /\ pc = "start"
    /\ Fail("paper")
    /\ UNCHANGED <<args, fsFiles, assigned, patterns, files, acc, catalog, valid, selected,
                   raised, persist, written, agent, runOutcome, runCalls,
                   cleanupCalls>>

PrologueDone ==
    /\ pc = "start"
    /\ pc' = "resolve"
    /\ UNCHANGED <<args, fsFiles, assigned, patterns, files, acc, catalog, valid, selected,
                   ret, raised, message, persist, written, agent, runOutcome,
                   runCalls, cleanupCalls>>

\* if args.data_dir: the directory check and the discovery of files
EnumerateFiles ==
    /\ pc = "resolve"
    /\ Truthy(args.data_dir)
    /\ IF ~IsDir(args.data_dir)
       THEN /\ Fail("dir_not_found")
            /\ UNCHANGED <<assigned, patterns, files>>
       ELSE /\ patterns' = Patterns(args.data_glob)
            /\ files' = Enumerate(fsFiles, patterns')
            /\ assigned' = assigned \cup {"patterns", "files"}
            /\ IF files' = <<>>
               THEN Fail("no_files")
               ELSE pc' = "infer" /\ UNCHANGED <<ret, message>>
    /\ UNCHANGED <<args, fsFiles, acc, catalog, valid, selected, raised, persist,
                   written, agent, runOutcome, runCalls, cleanupCalls>>

\* else: single file mode
SingleFile ==
    /\ pc = "resolve"
    /\ ~Truthy(args.data_dir)
    /\ IF ~Truthy(args.data_path) \/ ~Exists(fsFiles, args.data_path)
       THEN Fail("data_file_not_found") /\ UNCHANGED selected
       ELSE /\ selected' = args.data_path
            /\ pc' = "init_agent"
            /\ UNCHANGED <<ret, message>>
    /\ UNCHANGED <<args, fsFiles, assigned, patterns, files, acc, catalog, valid, raised,
                   persist, written, agent, runOutcome, runCalls, cleanupCalls>>

\* one element of catalog = [infer_file(fp) for fp in files]; the list is
\* bound to catalog when the last element is in
InferNext ==
    /\ pc = "infer"
    /\ LET fp == files[Len(acc) + 1]
           f  == CHOOSE g \in fsFiles : g.path = fp
       IN  IF InferFileRaises(f)
           THEN Raise("infer_file") /\ UNCHANGED <<acc, catalog, assigned>>
           ELSE /\ acc' = Append(acc, InferFile(f))
                /\ IF Len(acc') = Len(files)
                   THEN /\ catalog' = acc'
                        /\ assigned' = assigned \cup {"catalog"}
                        /\ pc' = "choose"
                   ELSE UNCHANGED <<catalog, assigned, pc>>
                /\ UNCHANGED raised
    /\ UNCHANGED <<args, fsFiles, patterns, files, valid, selected, ret, message,
                   persist, written, agent, runOutcome, runCalls, cleanupCalls>>

\* if args.primary_file: the explicit override
ChooseExplicit ==
    /\ pc = "choose"
    /\ Truthy(args.primary_file)
    /\ LET matched == Matched(catalog, args.primary_file)
       IN  IF matched = <<>>
           THEN Fail("primary_not_found") /\ UNCHANGED selected
           ELSE /\ selected' = matched[1].path
                /\ pc' = "save"
                /\ UNCHANGED <<ret, message>>
    /\ UNCHANGED <<args, fsFiles, assigned, patterns, files, acc, catalog, valid, raised,
                   persist, written, agent, runOutcome, runCalls, cleanupCalls>>

\* else: highest score wins
ChooseAutomatic ==
    /\ pc = "choose"
    /\ ~Truthy(args.primary_file)
    /\ LET v == ValidOf(catalog)
       IN  IF v = <<>>
           THEN /\ valid' = v
                /\ assigned' = assigned \cup {"valid"}
                /\ Fail("no_readable")
                /\ UNCHANGED selected
           ELSE /\ valid' = SortDesc(v)
                /\ assigned' = assigned \cup {"valid"}
                /\ selected' = valid'[1].path
                /\ pc' = "save"
                /\ UNCHANGED <<ret, message>>
    /\ UNCHANGED <<args, fsFiles, patterns, files, acc, catalog, raised,
                   persist, written, agent, runOutcome, runCalls, cleanupCalls>>

\* os.makedirs("logs", exist_ok=True) stands before the try block
SaveMkdirFails ==
    /\ pc = "save"
    /\ persist' = "mkdir_failed"
    /\ Raise("makedirs")
    /\ UNCHANGED <<args, fsFiles, assigned, patterns, files, acc, catalog, valid, selected,
                   ret, message, written, agent, runOutcome, runCalls,
                   cleanupCalls>>

\* open() or json.dump() raises inside the try block: except Exception: pass
SaveWriteFails ==
    /\ pc = "save"
    /\ persist' = "write_failed"
    /\ pc' = "catalog_only"
    /\ UNCHANGED <<args, fsFiles, assigned, patterns, files, acc, catalog, valid, selected,
                   ret, raised, message, written, agent, runOutcome, runCalls,
                   cleanupCalls>>

\* json.dump of the catalog in its in-memory order (data_dir is written
\* as its absolute path)
SaveCatalog ==
    /\ pc = "save"
    /\ persist' = "saved"
    /\ written' = Append(written, [data_dir |-> args.data_dir,
                                   patterns |-> patterns,
                                   selected |-> selected, files |-> catalog])
    /\ pc' = "catalog_only"
    /\ UNCHANGED <<args, fsFiles, assigned, patterns, files, acc, catalog, valid, selected,
                   ret, raised, message, agent, runOutcome, runCalls,
                   cleanupCalls>>

\* if args.catalog_only: return 0
CatalogOnly ==
    /\ pc = "catalog_only"
    /\ IF args.catalog_only
       THEN ret' = 0 /\ pc' = "done"
       ELSE pc' = "init_agent" /\ UNCHANGED ret
    /\ UNCHANGED <<args, fsFiles, assigned, patterns, files, acc, catalog, valid, selected,
                   raised, message, persist, written, agent, runOutcome,
                   runCalls, cleanupCalls>>

\* agent = AnalysisAgent(data_path=selected_data_path, ...); the agent has
\* a cleanup method or has none
InitAgent ==
    /\ pc = "init_agent"
    /\ \E has \in BOOLEAN :
          agent' = [constructed |-> TRUE, data_path |-> selected,
                    has_cleanup |-> has]
    /\ pc' = "run"
    /\ UNCHANGED <<args, fsFiles, assigned, patterns, files, acc, catalog, valid, selected,
                   ret, raised, message, persist, written, runOutcome,
                   runCalls, cleanupCalls>>

\* try: agent.run(); return 0 / except KeyboardInterrupt: return 1 /
\* except Exception: return 1
RunAgent ==
    /\ pc = "run"
    /\ \E o \in RunOutcomes :
          /\ runOutcome' = o
          /\ ret' = RunReturn(o)
    /\ runCalls' = runCalls + 1
    /\ pc' = "finally"
    /\ UNCHANGED <<args, fsFiles, assigned, patterns, files, acc, catalog, valid, selected,
                   raised, message, persist, written, agent, cleanupCalls>>

\* finally: the cleanup, then the return or the propagation of what the
\* except clauses did not catch
Finally ==
    /\ pc = "finally"
    /\ cleanupCalls' = IF CleanupDue(agent, runOutcome)
                       THEN cleanupCalls + 1 ELSE cleanupCalls
    /\ raised' = IF ret = NotReturned THEN "run" ELSE raised
    /\ pc' = "done"
    /\ UNCHANGED <<args, fsFiles, assigned, patterns, files, acc, catalog, valid, selected,
                   ret, message, persist, written, agent, runOutcome, runCalls>>

Next ==
    \/ PrologueFails
    \/ PrologueDone
    \/ EnumerateFiles
    \/ SingleFile
    \/ InferNext
    \/ ChooseExplicit
    \/ ChooseAutomatic
    \/ SaveMkdirFails
    \/ SaveWriteFails
    \/ SaveCatalog
    \/ CatalogOnly
    \/ InitAgent
    \/ RunAgent
    \/ Finally

Spec == Init /\ [][Next]_vars

(* ------------------------------------------------------------------ *)
(* Properties                                                          *)
(* ------------------------------------------------------------------ *)

\* the directory has been listed: main is past the directory check
Enumerated ==
    /\ Truthy(args.data_dir)
    /\ pc \notin {"start", "resolve"}
    /\ message # "paper"

\* the entries the non-blank patterns of --data-glob match
PatternUnion ==
    LET raw  == SplitComma(args.data_glob)
        pats == {Strip(raw[i]) : i \in 1..Len(raw)} \ {<<>>}
    IN  {f.path : f \in {g \in fsFiles :
                           \E q \in pats : FnMatch(Basename(g.path), q)}}

NothingBuilt ==
    /\ acc = <<>>
    /\ "catalog" \notin assigned
    /\ selected = None
    /\ ~agent.constructed

\* C9: once the directory has been listed, a root that is no directory has
\* ended the run with "directory not found" and an empty union of matches
\* has ended it with "no files found", both with no record built and
\* nothing selected; otherwise files is exactly the union of the matches of
\* the non-blank patterns, without duplicates, in ascending code-point
\* order, and the catalog's records follow that order.
C9_Enumeration ==
    Enumerated =>
        IF ~IsDir(args.data_dir)
        THEN ret = 1 /\ message = "dir_not_found" /\ NothingBuilt
        ELSE IF PatternUnion = {}
        THEN ret = 1 /\ message = "no_files" /\ files = <<>> /\ NothingBuilt
        ELSE /\ "files" \in assigned
             /\ Range(files) = PatternUnion
             /\ \A i \in 1..(Len(files) - 1) : StrLess(files[i], files[i + 1])
             /\ \A i \in 1..Len(acc) : acc[i].path = files[i]
             /\ "catalog" \in assigned =>
                   /\ Len(catalog) = Len(files)
                   /\ \A i \in 1..Len(files) : catalog[i].path = files[i]

\* overlapping and padded patterns list three entries, each once, the
\* upper-case name first
C9_Witness ==
    /\ Enumerated
    /\ args.data_glob = GlobMessy
    /\ Len(files) = 3
    /\ files[1] = PathUpper
    /\ files[2] = PathA
    /\ "catalog" \in assigned

\* automatic selection has run
AutoChosen ==
    /\ Truthy(args.data_dir)
    /\ ~Truthy(args.primary_file)
    /\ "catalog" \in assigned
    /\ pc # "choose"

\* the records that carry no non-empty error
Remaining ==
    {i \in 1..Len(catalog) :
        ~("error" \in DOMAIN catalog[i] /\ catalog[i].error # "")}

\* C1: after automatic selection, if every record carries a non-empty error
\* the run has failed with "no readable files" and nothing is selected;
\* otherwise the selected path is that of a remaining record whose tuple
\* (score, nrows or 0, size or 0) no remaining record exceeds, and which
\* comes before every other remaining record of the same tuple.
C1_AutomaticSelection ==
    AutoChosen =>
        IF Remaining = {}
        THEN ret = 1 /\ message = "no_readable" /\ selected = None
             /\ ~agent.constructed
        ELSE \E i \in Remaining :
                /\ selected = catalog[i].path
                /\ \A j \in Remaining :
                      /\ ~KeyLess(SortKey(catalog[i]), SortKey(catalog[j]))
                      /\ SortKey(catalog[j]) = SortKey(catalog[i]) => i <= j

\* two records tie at the top around a record with an error; the first wins
C1_Witness ==
    /\ AutoChosen
    /\ pc = "save"
    /\ Len(catalog) = 3
    /\ HasError(catalog[2])
    /\ Remaining = {1, 3}
    /\ SortKey(catalog[1]) = SortKey(catalog[3])
    /\ selected = catalog[1].path

\* the explicit override has run
ExplicitChosen ==
    /\ Truthy(args.data_dir)
    /\ Truthy(args.primary_file)
    /\ "catalog" \in assigned
    /\ pc # "choose"

\* the records --primary-file matches
Matching ==
    {i \in 1..Len(catalog) :
        \/ catalog[i].path = args.primary_file
        \/ Basename(catalog[i].path) = Basename(args.primary_file)}

\* C2: after the explicit override, if no record's path equals the value
\* and no record's basename equals the value's basename the run has failed
\* with "primary file not found" and nothing is selected; otherwise the
\* selected path is that of a matching record, whatever its score and
\* whether or not it carries an error.
C2_ExplicitOverride ==
    ExplicitChosen =>
        IF Matching = {}
        THEN ret = 1 /\ message = "primary_not_found" /\ selected = None
             /\ ~agent.constructed
        ELSE /\ \E i \in Matching : selected = catalog[i].path
             /\ message # "primary_not_found"

\* the override picks, by basename, a record that failed to parse while a
\* readable record is in the catalog
C2_Witness ==
    /\ ExplicitChosen
    /\ pc = "save"
    /\ args.primary_file = PrimaryOther
    /\ \E i, j \in 1..Len(catalog) :
          /\ selected = catalog[i].path
          /\ HasError(catalog[i])
          /\ "score" \in DOMAIN catalog[j]

\* the directory entry a record was made from
FileOf(r) == CHOOSE f \in fsFiles : f.path = r.path

\* the column names of a frame, in lower case
Lowered(cols) == {Lower(cols[k]) : k \in 1..Len(cols)}

\* C5: every record of a successfully sampled file has the four signals
\* equal to the keyword tests on the lower-cased column names of the frame
\* read, and score = 3 (unit and time) + 2 (treat) + 1 (outcome)
\* + 0.5 * nrows / 1,000,000 + 0.1 * ncols with the frame's shape; columns
\* that are exactly unit, time, treat, y in any case give four true signals
\* and a score of at least 6.
C5_SignalsAndScore ==
    \A i \in 1..Len(acc) :
        LET r     == acc[i]
            cols  == FileOf(r).columns
            names == Lowered(cols)
        IN  "error" \notin DOMAIN r =>
              /\ r.signals.has_time = (names \cap TimeKeys # {})
              /\ r.signals.has_unit = (names \cap UnitKeys # {})
              /\ r.signals.has_treat = (names \cap TreatKeys # {})
              /\ r.signals.has_outcome = (names \cap OutcomeKeys # {})
              /\ r.ncols = Len(cols)
              /\ r.nrows <= FileOf(r).rows
              /\ r.score =
                    (IF r.signals.has_unit /\ r.signals.has_time THEN 3 ELSE 0)
                        * ScoreUnit
                    + (IF r.signals.has_treat THEN 2 ELSE 0) * ScoreUnit
                    + (IF r.signals.has_outcome THEN 1 ELSE 0) * ScoreUnit
                    + r.nrows + (ScoreUnit \div 10) * r.ncols
              /\ names
                    = {<<"u","n","i","t">>, <<"t","i","m","e">>,
                       <<"t","r","e","a","t">>, <<"y">>}
                 => /\ r.signals = [has_unit |-> TRUE, has_time |-> TRUE,
                                    has_treat |-> TRUE, has_outcome |-> TRUE]
                    /\ r.score >= 6 * ScoreUnit

\* a record of a frame whose columns are Unit, TIME, treat, Y
C5_Witness ==
    \E i \in 1..Len(acc) :
        /\ "signals" \in DOMAIN acc[i]
        /\ FileOf(acc[i]).columns = ColsPanel
        /\ acc[i].signals.has_unit
        /\ acc[i].signals.has_time
        /\ acc[i].score >= 6 * ScoreUnit

\* C10: the agent exists only with a resolved data path, which it was
\* given; run() is called at most once and cleanup only after it; and when
\* main has ended after run(), cleanup has been called exactly once if the
\* agent has one (never otherwise), with return value 0 after a normal
\* run, 1 after an exception and 1 after an interrupt.
C10_CleanupAfterRun ==
    /\ agent.constructed => selected # None /\ agent.data_path = selected
    /\ runCalls <= 1
    /\ cleanupCalls > 0 => runCalls = 1 /\ pc = "done"
    /\ (pc = "done" /\ runCalls = 1) =>
          /\ cleanupCalls = IF agent.has_cleanup THEN 1 ELSE 0
          /\ runOutcome = "ok" => ret = 0
          /\ runOutcome = "exception" => ret = 1
          /\ runOutcome = "interrupt" => ret = 1

\* run() was interrupted, cleanup ran once, main returned 1
C10_Witness ==
    /\ pc = "done"
    /\ runOutcome = "interrupt"
    /\ agent.constructed
    /\ agent.has_cleanup
    /\ cleanupCalls = 1
    /\ ret = 1

\* C3: infer_file never raises: no exception of the sampler leaves main,
\* and once the comprehension over a non-empty files list is over the
\* catalog holds exactly one record per enumerated path.
C3_SamplerNeverRaises ==
    /\ raised # "infer_file"
    /\ ("files" \in assigned /\ files # <<>> /\ pc # "infer") =>
          /\ "catalog" \in assigned
          /\ Len(catalog) = Len(files)

\* the fields of a successfully sampled record
FullSet == {"nrows", "ncols", "columns", "signals", "score"}

\* C4: every record has a populated (non-empty) error or the full set of
\* nrows, ncols, columns, signals and score, never both and never neither;
\* a file of an unsupported extension gives error "unsupported_ext" and no
\* field of the full set; a file whose read raises gives a non-empty error.
C4_ErrorXorFullSet ==
    \A i \in 1..Len(acc) :
        LET r         == acc[i]
            populated == "error" \in DOMAIN r /\ r.error # ""
            supported == Lower(SplitExt(r.path)) \in SupportedExts
        IN  /\ populated # (FullSet \subseteq DOMAIN r)
            /\ populated => FullSet \cap DOMAIN r = {}
            /\ ~supported =>
                  /\ "error" \in DOMAIN r
                  /\ r.error = "unsupported_ext"
                  /\ FullSet \cap DOMAIN r = {}
            /\ (supported /\ ~FileOf(r).readable) => populated

\* the 3/2/1 part of a record's score
Structural(r) ==
    (IF r.signals.has_unit /\ r.signals.has_time THEN 3 ELSE 0)
    + (IF r.signals.has_treat THEN 2 ELSE 0)
    + (IF r.signals.has_outcome THEN 1 ELSE 0)

\* C6: in the ranking of automatic selection, a readable record whose
\* structural part is lower by 1 or more than another's is never placed
\* above it, whatever the row and column counts.
C6_SizeOnlyBreaksTies ==
    "valid" \in assigned =>
        \A i, j \in 1..Len(valid) :
            (/\ "signals" \in DOMAIN valid[i]
             /\ "signals" \in DOMAIN valid[j]
             /\ Structural(valid[j]) >= Structural(valid[i]) + 1) => j < i

\* C7: with --catalog-only and a directory that lists at least one file,
\* main ends with the catalog built and a save attempted, and without an
\* agent, whatever the catalog holds and whatever the override is.
C7_CatalogOnlyPersists ==
    (/\ args.catalog_only
     /\ Enumerated
     /\ "files" \in assigned
     /\ files # <<>>
     /\ pc = "done") =>
        /\ "catalog" \in assigned
        /\ persist # ""
        /\ ~agent.constructed
        /\ runCalls = 0

\* C8: a failed save (directory creation, open, write) is swallowed: the
\* selected path stands, and main goes on to the catalog-only return 0 or
\* to the agent as after a successful save.
C8_SaveFailureSwallowed ==
    persist \in {"mkdir_failed", "write_failed"} =>
        /\ raised # "makedirs"
        /\ selected # None
        /\ pc = "done" =>
              IF args.catalog_only
              THEN ret = 0 /\ raised = ""
              ELSE agent.constructed /\ runCalls = 1

====
